---- MODULE Spec2Model ----
(***************************************************************************)
(* Model of snap-sync-cleanup.py: the retention run of __main__ (resolve   *)
(* the latest marker, locate and scan the snapshot directory, sort, loop   *)
(* over the snapshots, summary and exit status) and the two stages of      *)
(* delete_snapshot.                                                        *)
(*                                                                         *)
(* Text is modelled as a sequence of one-character strings.  The character *)
(* "L" stands for one occurrence of the marker text                        *)
(* "latest incremental backup".  An Optional[int] is <<>> (None) or <<n>>. *)
(***************************************************************************)
EXTENDS Integers, Sequences, FiniteSets, TLC

\* ---------------------------------------------------------------- bounds
MaxKeep == 2
MaxOut == 6
MaxChildren == 3

\* ------------------------------------------------------ text primitives
Whitespace == {" ", "\n"}

Digits == {"0", "1", "2", "3", "4", "5", "6", "7", "8", "9"}

Strings(chars, n) == UNION {[1..k -> chars] : k \in 0..n}

RECURSIVE LStrip(_)
LStrip(s) ==
    IF s = <<>> THEN s
    ELSE IF Head(s) \in Whitespace THEN LStrip(Tail(s)) ELSE s

RECURSIVE RStrip(_)
RStrip(s) ==
    IF s = <<>> THEN s
    ELSE IF s[Len(s)] \in Whitespace THEN RStrip(SubSeq(s, 1, Len(s) - 1)) ELSE s

\* str.strip()
Strip(s) == RStrip(LStrip(s))

\* index of the first occurrence of character c in s, 0 when there is none
IndexOf(s, c) ==
    IF \E k \in 1..Len(s) : s[k] = c
    THEN CHOOSE k \in 1..Len(s) : s[k] = c /\ \A j \in 1..(k - 1) : s[j] # c
    ELSE 0

\* str.splitlines()
RECURSIVE SplitLines(_)
SplitLines(s) ==
    IF s = <<>> THEN <<>>
    ELSE LET k == IndexOf(s, "\n")
         IN IF k = 0 THEN <<s>>
            ELSE <<SubSeq(s, 1, k - 1)>> \o SplitLines(SubSeq(s, k + 1, Len(s)))

\* line.split(" ")[0]
FirstToken(line) ==
    LET k == IndexOf(line, " ")
    IN IF k = 0 THEN line ELSE SubSeq(line, 1, k - 1)

\* "latest incremental backup" in line
HasMarker(line) == \E k \in 1..Len(line) : line[k] = "L"

DigitVal(c) ==
    CASE c = "0" -> 0 [] c = "1" -> 1 [] c = "2" -> 2 [] c = "3" -> 3
      [] c = "4" -> 4 [] c = "5" -> 5 [] c = "6" -> 6 [] c = "7" -> 7
      [] c = "8" -> 8 [] c = "9" -> 9

RECURSIVE DigitsVal(_)
DigitsVal(s) ==
    IF s = <<>> THEN 0
    ELSE DigitsVal(SubSeq(s, 1, Len(s) - 1)) * 10 + DigitVal(s[Len(s)])

AllDigits(s) == s # <<>> /\ \A k \in 1..Len(s) : s[k] \in Digits

\* int(text): <<n>> when text parses (surrounding whitespace, an optional
\* sign, then decimal digits), <<>> when int() raises ValueError
PyInt(text) ==
    LET t == Strip(text)
    IN IF t = <<>> THEN <<>>
       ELSE IF Head(t) = "-"
            THEN IF AllDigits(Tail(t)) THEN <<0 - DigitsVal(Tail(t))>> ELSE <<>>
       ELSE IF Head(t) = "+"
            THEN IF AllDigits(Tail(t)) THEN <<DigitsVal(Tail(t))>> ELSE <<>>
       ELSE IF AllDigits(t) THEN <<DigitsVal(t)>> ELSE <<>>

\* ------------------------------------------- get_latest_snapshot_num
\* variant: the scan gives up at the first marker line that does not parse
RECURSIVE ScanLinesGiveUp(_, _)
ScanLinesGiveUp(lines, k) ==
    IF k = 0 THEN <<>>
    ELSE IF ~HasMarker(lines[k]) THEN ScanLinesGiveUp(lines, k - 1)
    ELSE PyInt(FirstToken(lines[k]))

\* the reversed scan over the lines, from line k down to line 1
RECURSIVE ScanLines(_, _)
ScanLines(lines, k) ==
    IF k = 0 THEN <<>>
    ELSE IF ~HasMarker(lines[k]) THEN ScanLines(lines, k - 1)
    ELSE LET num == PyInt(FirstToken(lines[k]))
         IN IF num # <<>> THEN num ELSE ScanLines(lines, k - 1)

\* the value returned for a captured (already stripped) standard output
ParseLatest(snapper_stdout) ==
    LET lines == SplitLines(snapper_stdout)
    IN ScanLines(lines, Len(lines))

\* log_external_output: TRUE when the call raises.  A value that is neither
\* bytes nor str (None) reaches stdout.strip() and raises AttributeError.
LogExternalOutputRaises(stdout, stderr) == stdout = <<"None">> \/ stderr = <<"None">>

\* variant: only a negative return code counts as a failure
ListingFailedNegative(rc) == rc < 0

\* the test of the listing tool's return code
ListingFailed(rc) == rc # 0

\* ---------------------------------------------- get_snapshot_root_path
\* what stands at remote/config
RootKinds == {"missing", "file", "dir"}

\* variant: the two tests are joined by "and"
RootNotFoundBoth(kind) == kind = "missing" /\ kind # "dir"

\* not path.exists() or not path.is_dir()
RootNotFound(kind) == kind = "missing" \/ kind # "dir"

\* ------------------------------------------------------- get_snapshots
\* variant: the is_dir() test is missing
IsDirAny(kind) == TRUE

\* is_dir() follows symbolic links
IsDir(kind) == kind \in {"dir", "rootlink"}

RECURSIVE GetSnapshots(_, _)
GetSnapshots(order, kinds) ==
    IF order = <<>> THEN <<>>
    ELSE LET child == Head(order)
             num == PyInt(child)
             rest == GetSnapshots(Tail(order), kinds)
         IN IF ~IsDir(kinds[child]) THEN rest
            ELSE IF num = <<>> THEN rest
            ELSE << <<num[1], child>> >> \o rest

\* variant: the list is used in the order of the scan
SortSnapshotsNone(snaps) == snaps

\* list.sort(key=lambda x: x[0]): stable insertion by number
RECURSIVE SortSnapshots(_)
SortSnapshots(snaps) ==
    IF snaps = <<>> THEN <<>>
    ELSE LET sorted == SortSnapshots(SubSeq(snaps, 1, Len(snaps) - 1))
             x == snaps[Len(snaps)]
             n == Cardinality({k \in 1..Len(sorted) : sorted[k][1] <= x[1]})
         IN SubSeq(sorted, 1, n) \o <<x>> \o SubSeq(sorted, n + 1, Len(sorted))

\* the path of a child of the snapshot root, as a sequence of components;
\* PosixPath("/") is the empty sequence
ChildPath(root, name) == root \o <<name>>

IsRootPath(path) == path = <<>>

\* ------------------------------------------------- the retention loop
\* variant: the stop condition is a strict comparison
BreakCondStrict(total, attempts, keep) == total - attempts < keep

\* variant: the stop condition is off by one
BreakCondOffByOne(total, attempts, keep) == total - attempts <= keep + 1

\* the stop condition at the head of the loop
BreakCond(total, attempts, keep) == total - attempts <= keep

\* variant: the latest backup is protected only when more than one is kept
SkipLatestAboveOne(num, latest, keep) == latest = <<num>> /\ keep > 1

\* the skip of the latest backup number
SkipLatest(num, latest, keep) == latest = <<num>> /\ keep > 0

\* the value given to delete_attempts for a delete-eligible snapshot
EligibleAttempts(attempts) == 0

\* variant: every call is counted as a successful delete
CountAfterDeleteAlways(count, deleted) == count + 1

\* delete_count after a call of delete_snapshot that returned deleted
CountAfterDelete(count, deleted) == IF deleted THEN count + 1 ELSE count

\* variant: the loop stays on a snapshot whose deletion failed
IdxAfterDeleteRetry(i, deleted) == IF deleted THEN i + 1 ELSE i

\* the for loop moves to the next snapshot whatever delete_snapshot returned
IdxAfterDelete(i, deleted) == i + 1

\* the exit check after the summary: the status the process ends with
ExitCheck(attempts, count) == IF attempts > count THEN 1 ELSE 0

\* ------------------------------------------------------ delete_snapshot
\* the fields of the CompletedProcess of the volume removal: run() is called
\* without capture_output, so both are None
DeleteResultStdout == <<"None">>

DeleteResultStderr == <<"None">>

\* variant: only a negative return code counts as a failure
VolumeRemovalFailedNegative(rc) == rc < 0

\* the test of the volume removal's return code
VolumeRemovalFailed(rc) == rc # 0

\* shutil.rmtree refuses a symbolic link (OSError); on a directory it may
\* succeed or raise
RmtreeOutcomes(kind) == IF kind = "rootlink" THEN {"raise"} ELSE {"ok", "raise"}

\* ------------------------------------------------------------ the state
VARIABLES
    pc,                \* position of the run
    max_keep,          \* args.max_keep
    snapper,           \* <<>> or <<[rc, stdout, noperm]>>: the listing call
    latest_backup_num, \* Optional[int]
    located,           \* get_snapshot_root_path has been called
    root_kind,         \* "none" before that call, then what it found at the path
    scanned,           \* get_snapshots has read the directory
    snapshot_path,     \* components of the absolute snapshot root
    children,          \* child name -> kind, as read by iterdir()
    dirs,              \* child names still on disk for which is_dir() holds
    subvols,           \* names whose subvolume is still on disk
    snapshots,         \* the sorted list of <<num, name>>
    idx,               \* position of the for loop in snapshots
    delete_count,
    delete_attempts,
    calls,             \* one record per delete_snapshot invocation
    exit_status        \* <<>> while running, <<code>> once the process ended

vars == <<pc, max_keep, snapper, latest_backup_num, located, root_kind, scanned,
          snapshot_path, children, dirs, subvols, snapshots, idx,
          delete_count, delete_attempts, calls, exit_status>>

Kinds == {"dir", "file", "rootlink"}

\* child names the scan may meet
NamePool == {<<"1">>, <<"2">>, <<"0", "2">>, <<"3">>, <<"-", "3">>, <<"x">>}

\* absolute snapshot roots: "/" itself and "/backup/cfg"
RootPaths == {<<>>, <<"backup", "cfg">>}

DirConfigs == UNION {[S -> Kinds] : S \in {T \in SUBSET NamePool : Cardinality(T) <= MaxChildren}}

\* the directory of the scenario: five snapshot directories 1..5
ScenarioConfigs == {[n \in {<<"1">>, <<"2">>, <<"3">>, <<"4">>, <<"5">>} |-> "dir"]}

\* the orders in which iterdir() may yield the children
RECURSIVE Orders(_)
Orders(S) ==
    IF S = {} THEN {<<>>}
    ELSE UNION {{<<x>> \o p : p \in Orders(S \ {x})} : x \in S}

\* characters of the listing tool's standard output
ListingChars(digit) == {digit, " ", "L", "\n"}

Init ==
    /\ pc = "start"
    /\ max_keep \in 0..MaxKeep
    /\ snapper = <<>>
    /\ latest_backup_num = <<>>
    /\ located = FALSE
    /\ root_kind = "none"
    /\ scanned = FALSE
    /\ snapshot_path = <<>>
    /\ children = <<>>
    /\ dirs = {}
    /\ subvols = {}
    /\ snapshots = <<>>
    /\ idx = 1
    /\ delete_count = 0
    /\ delete_attempts = 0
    /\ calls = <<>>
    /\ exit_status = <<>>

\* subprocess.run(["snapper", ...], capture_output=True) and the decode/strip
RunSnapper(digit) ==
    /\ pc = "start"
    /\ \E out \in Strings(ListingChars(digit), MaxOut), rc \in {0, 1}, noperm \in BOOLEAN :
          /\ rc = 0 => ~noperm
          /\ snapper' = <<[rc |-> rc, stdout |-> Strip(out), noperm |-> noperm]>>
    /\ pc' = "snapper_done"
    /\ UNCHANGED <<root_kind, max_keep, latest_backup_num, located, scanned, snapshot_path,
                   children, dirs, subvols, snapshots, idx, delete_count,
                   delete_attempts, calls, exit_status>>

\* the rest of get_latest_snapshot_num: the return-code check and the scan
ParseListing ==
    /\ pc = "snapper_done"
    /\ IF ListingFailed(snapper[1].rc)
       THEN /\ pc' = "exited"
            /\ exit_status' = <<1>>
            /\ UNCHANGED latest_backup_num
       ELSE /\ pc' = "resolved"
            /\ latest_backup_num' = ParseLatest(snapper[1].stdout)
            /\ UNCHANGED exit_status
    /\ UNCHANGED <<root_kind, max_keep, snapper, located, scanned, snapshot_path, children,
                   dirs, subvols, snapshots, idx, delete_count, delete_attempts,
                   calls>>

\* main receives the latest number (the captured text, a local of
\* get_latest_snapshot_num, is gone) and calls get_snapshot_root_path
Locate ==
    /\ pc = "resolved"
    /\ located' = TRUE
    /\ snapper' = <<[snapper[1] EXCEPT !.stdout = <<>>]>>
    /\ \E root \in RootPaths, kind \in RootKinds :
          /\ root_kind' = kind
          /\ IF RootNotFound(kind)
             THEN /\ pc' = "exited"
                  /\ exit_status' = <<1>>
                  /\ UNCHANGED snapshot_path
             ELSE /\ pc' = "located"
                  /\ snapshot_path' = root
                  /\ UNCHANGED exit_status
    /\ UNCHANGED <<max_keep, latest_backup_num, scanned, children, dirs,
                   subvols, snapshots, idx, delete_count, delete_attempts, calls>>

\* get_snapshots, the sort, and the initialisation of the two counters
Scan(configs) ==
    /\ pc = "located"
    /\ \E kinds \in configs :
         \E order \in Orders(DOMAIN kinds) :
            /\ children' = kinds
            /\ dirs' = {n \in DOMAIN kinds : IsDir(kinds[n])}
            /\ subvols' = {n \in DOMAIN kinds : IsDir(kinds[n])}
            /\ snapshots' = SortSnapshots(GetSnapshots(order, kinds))
    /\ scanned' = TRUE
    /\ idx' = 1
    /\ delete_count' = 0
    /\ delete_attempts' = 0
    /\ pc' = "loop"
    /\ UNCHANGED <<root_kind, max_keep, snapper, latest_backup_num, located, snapshot_path,
                   calls, exit_status>>

\* one pass through the head of the for loop, up to the call of delete_snapshot
LoopStep ==
    /\ pc = "loop"
    /\ IF idx > Len(snapshots)
       THEN /\ pc' = "summary"
            /\ UNCHANGED <<idx, delete_attempts, calls>>
       ELSE LET num == snapshots[idx][1]
                path == ChildPath(snapshot_path, snapshots[idx][2])
            IN IF BreakCond(Len(snapshots), delete_attempts, max_keep)
               THEN /\ pc' = "summary"
                    /\ UNCHANGED <<idx, delete_attempts, calls>>
               ELSE IF SkipLatest(num, latest_backup_num, max_keep)
               THEN /\ idx' = idx + 1
                    /\ UNCHANGED <<pc, delete_attempts, calls>>
               ELSE IF IsRootPath(path)
               THEN /\ idx' = idx + 1
                    /\ UNCHANGED <<pc, delete_attempts, calls>>
               ELSE /\ delete_attempts' = EligibleAttempts(delete_attempts)
                    /\ calls' = Append(calls, [snap |-> idx, a |-> "pending",
                                               b |-> "none", ret |-> "pending"])
                    /\ pc' = "stage_a"
                    /\ UNCHANGED idx
    /\ UNCHANGED <<root_kind, max_keep, snapper, latest_backup_num, located, scanned,
                   snapshot_path, children, dirs, subvols, snapshots,
                   delete_count, exit_status>>

SetCall(a, b, ret) == [calls EXCEPT ![Len(calls)] = [snap |-> idx, a |-> a, b |-> b, ret |-> ret]]

\* delete_snapshot, stage (a): the volume removal and the return-code check.
\* found = FALSE: no program of the name given to run() exists, run() raises
\* FileNotFoundError, which nothing catches.
StageA ==
    /\ pc = "stage_a"
    /\ \E found \in BOOLEAN, rc \in {0, 1} :
          IF ~found
          THEN /\ calls' = SetCall("notfound", "none", "raised")
               /\ pc' = "crashed"
               /\ exit_status' = <<1>>
               /\ UNCHANGED <<subvols, idx>>
          ELSE /\ subvols' = IF rc = 0 THEN subvols \ {snapshots[idx][2]} ELSE subvols
               /\ IF VolumeRemovalFailed(rc)
                  THEN IF LogExternalOutputRaises(DeleteResultStdout, DeleteResultStderr)
                       THEN /\ calls' = SetCall("fail", "none", "raised")
                            /\ pc' = "crashed"
                            /\ exit_status' = <<1>>
                            /\ UNCHANGED idx
                       ELSE /\ calls' = SetCall("fail", "none", "false")
                            /\ pc' = "loop"
                            /\ idx' = IdxAfterDelete(idx, FALSE)
                            /\ UNCHANGED exit_status
                  ELSE /\ calls' = SetCall(IF rc = 0 THEN "ok" ELSE "fail", "none", "pending")
                       /\ pc' = "stage_b"
                       /\ UNCHANGED <<idx, exit_status>>
    /\ UNCHANGED <<root_kind, max_keep, snapper, latest_backup_num, located, scanned,
                   snapshot_path, children, dirs, snapshots, delete_count,
                   delete_attempts>>

\* delete_snapshot, stage (b): shutil.rmtree, and the caller's count update
StageB ==
    /\ pc = "stage_b"
    /\ \E res \in RmtreeOutcomes(children[snapshots[idx][2]]) :
          /\ IF res = "ok"
             THEN /\ calls' = SetCall(calls[Len(calls)].a, "ok", "true")
                  /\ dirs' = dirs \ {snapshots[idx][2]}
             ELSE /\ calls' = SetCall(calls[Len(calls)].a, "raise", "false")
                  /\ UNCHANGED dirs
          /\ delete_count' = CountAfterDelete(delete_count, res = "ok")
          /\ idx' = IdxAfterDelete(idx, res = "ok")
    /\ pc' = "loop"
    /\ UNCHANGED <<root_kind, max_keep, snapper, latest_backup_num, located, scanned,
                   snapshot_path, children, subvols, snapshots, delete_attempts,
                   exit_status>>

\* the summary and the exit check
Summary ==
    /\ pc = "summary"
    /\ exit_status' = <<ExitCheck(delete_attempts, delete_count)>>
    /\ pc' = "done"
    /\ UNCHANGED <<root_kind, max_keep, snapper, latest_backup_num, located, scanned,
                   snapshot_path, children, dirs, subvols, snapshots, idx,
                   delete_count, delete_attempts, calls>>

Next ==
    \/ RunSnapper("2")
    \/ ParseListing
    \/ Locate
    \/ Scan(DirConfigs)
    \/ LoopStep
    \/ StageA
    \/ StageB
    \/ Summary

Spec == Init /\ [][Next]_vars

\* the scenario run: max_keep = 2, five snapshot directories 1..5, a listing
\* over the digit 5
ScenarioInit == Init /\ max_keep = 2

ScenarioNext ==
    \/ RunSnapper("5")
    \/ ParseListing
    \/ Locate
    \/ Scan(ScenarioConfigs)
    \/ LoopStep
    \/ StageA
    \/ StageB
    \/ Summary

SpecScenario == ScenarioInit /\ [][ScenarioNext]_vars

TypeOK ==
    /\ pc \in {"start", "snapper_done", "resolved", "located", "loop", "stage_a",
               "stage_b", "summary", "done", "exited", "crashed"}
    /\ max_keep \in 0..MaxKeep
    /\ Len(calls) <= Len(snapshots)
    /\ dirs \subseteq DOMAIN children

\* ------------------------------------------------------------ properties
Max(a, b) == IF a >= b THEN a ELSE b

Min(a, b) == IF a <= b THEN a ELSE b

SetMax(S) == CHOOSE x \in S : \A y \in S : y <= x

SnapNum(i) == snapshots[i][1]

SnapName(i) == snapshots[i][2]

SnapIdx == 1..Len(snapshots)

CallIdx == 1..Len(calls)

\* the snapshots delete_snapshot was called on
Invoked == {calls[k].snap : k \in CallIdx}

AllCallsSucceeded == \A k \in CallIdx : calls[k].ret = "true"

\* the snapshots whose outer entry is still on disk
Remaining == {i \in SnapIdx : SnapName(i) \in dirs}

\* the snapshots that carry the latest backup number
LatestSnaps == {i \in SnapIdx : latest_backup_num = <<SnapNum(i)>>}

NoRootSnapshot ==
    \A i \in SnapIdx : /\ children[SnapName(i)] # "rootlink"
                       /\ ~IsRootPath(ChildPath(snapshot_path, SnapName(i)))

\* C1: with max_keep > 0, delete_snapshot is never called on a snapshot whose
\* number equals the latest number returned by get_latest_snapshot_num.
C1_LatestNeverDeleted ==
    max_keep > 0 => \A k \in CallIdx : latest_backup_num # <<SnapNum(calls[k].snap)>>

C1_Witness ==
    /\ pc = "done"
    /\ max_keep > 0
    /\ calls # <<>>
    /\ LatestSnaps # {}

\* C2 as stated: when every delete_snapshot call succeeded and no snapshot is
\* the root, at most max_keep snapshots remain on disk at the end of the run.
C2_AtMostMaxKeepRemain ==
    (pc = "done" /\ AllCallsSucceeded /\ NoRootSnapshot)
        => Cardinality(Remaining) <= max_keep

\* C2, amended: when every delete_snapshot call succeeded and no snapshot is
\* the root, the number of snapshots that remain at the end of the run is at
\* most the larger of max_keep and, when max_keep > 0, the number of
\* snapshots that carry the latest backup number.
C2_AtMostMaxKeepOrLatestRemain ==
    (pc = "done" /\ AllCallsSucceeded /\ NoRootSnapshot)
        => Cardinality(Remaining)
             <= Max(max_keep, IF max_keep > 0 THEN Cardinality(LatestSnaps) ELSE 0)

C2_Witness ==
    /\ pc = "done"
    /\ AllCallsSucceeded
    /\ NoRootSnapshot
    /\ calls # <<>>
    /\ Cardinality(LatestSnaps) = 2
    /\ Cardinality(Remaining) > max_keep

\* the snapshots the loop neither skips as the latest backup nor as the root
NonExcluded ==
    {i \in SnapIdx : /\ ~SkipLatest(SnapNum(i), latest_backup_num, max_keep)
                     /\ ~IsRootPath(ChildPath(snapshot_path, SnapName(i)))}

\* C3: after a run with max_keep = K, the number of remaining non-excluded
\* snapshots is at least min(K, number of snapshots discovered).
C3_AtLeastMinKeepRemain ==
    pc = "done"
        => Cardinality(NonExcluded \cap Remaining) >= Min(max_keep, Len(snapshots))

\* C4: a run in which some delete_snapshot call did not succeed ends with
\* exit status 1; a run in which every call succeeded, or none was made, ends
\* with exit status 0.
C4_ExitStatusReflectsFailures ==
    (scanned /\ exit_status # <<>>)
        => exit_status = (IF AllCallsSucceeded THEN <<0>> ELSE <<1>>)

\* C5: delete_snapshot is never called on a snapshot whose path resolves to
\* the filesystem root, whatever max_keep is.
C5_RootNeverDeleted ==
    \A k \in CallIdx : children[SnapName(calls[k].snap)] # "rootlink"

\* C6: when the volume removal of a call exits non-zero, rmtree is not
\* executed in that call and the outer directory is still on disk.
C6_NoRmtreeAfterFailedVolumeRemoval ==
    \A k \in CallIdx :
        calls[k].a = "fail" => /\ calls[k].b = "none"
                               /\ SnapName(calls[k].snap) \in dirs

C6_Witness ==
    /\ exit_status # <<>>
    /\ \E k \in CallIdx : calls[k].a = "fail"

\* the numbers of the snapshots removed by a successful call
DeletedNums == {SnapNum(calls[k].snap) : k \in {j \in CallIdx : calls[j].ret = "true"}}

\* the snapshots the loop passed without calling delete_snapshot
Skipped == {i \in SnapIdx : i < idx /\ i \notin Invoked}

\* C7: snapshots 1..5, latest number 5, max_keep = 2, every deletion
\* succeeding: exactly 1, 2 and 3 are deleted, none is skipped, 4 and 5 are
\* kept.
C7_ScenarioKeepsFourAndFive ==
    (pc = "done" /\ latest_backup_num = <<5>> /\ AllCallsSucceeded)
        => /\ DeletedNums = {1, 2, 3}
           /\ Skipped = {}
           /\ {SnapNum(i) : i \in Remaining} = {4, 5}

\* C8: with max_keep = 0, delete_snapshot is called during the run on every
\* snapshot whose path is not the root, the latest backup included.
C8_KeepZeroInvokesAll ==
    (scanned /\ exit_status # <<>> /\ max_keep = 0)
        => \A i \in SnapIdx :
              ~IsRootPath(ChildPath(snapshot_path, SnapName(i))) => i \in Invoked

\* C9: when the listing tool exits non-zero, the process exits with status 1
\* before the snapshot root is located or a directory is scanned, and
\* delete_snapshot is never called.
C9_ListingFailureIsFatal ==
    (snapper # <<>> /\ snapper[1].rc # 0)
        => /\ pc \in {"snapper_done", "exited"}
           /\ pc = "exited" => exit_status = <<1>>
           /\ ~located
           /\ ~scanned
           /\ calls = <<>>

C9_Witness ==
    /\ pc = "exited"
    /\ snapper # <<>>
    /\ snapper[1].rc # 0
    /\ snapper[1].noperm
    /\ exit_status = <<1>>

\* the lines of the captured listing, while get_latest_snapshot_num holds it
ListingLines == SplitLines(snapper[1].stdout)

MarkerLines == {k \in 1..Len(ListingLines) : HasMarker(ListingLines[k])}

ParsableMarkerLines ==
    {k \in MarkerLines : PyInt(FirstToken(ListingLines[k])) # <<>>}

LastMarkerLineFails ==
    /\ MarkerLines # {}
    /\ SetMax(MarkerLines) \notin ParsableMarkerLines

\* C10 as stated: when the last marker line's leading token does not parse,
\* the result is absent.
C10_AbsentWhenLastMarkerFails ==
    (pc = "resolved" /\ LastMarkerLineFails) => latest_backup_num = <<>>

\* C10, amended: when the last marker line's leading token does not parse,
\* earlier marker lines are still tried; the result is the number of the last
\* marker line whose leading token parses, and absent only when no marker
\* line has a leading token that parses.
C10_LastParsableMarkerWins ==
    pc = "resolved"
        => latest_backup_num =
             (IF ParsableMarkerLines = {} THEN <<>>
              ELSE PyInt(FirstToken(ListingLines[SetMax(ParsableMarkerLines)])))

C10_Witness ==
    /\ pc = "resolved"
    /\ LastMarkerLineFails
    /\ ParsableMarkerLines # {}
    /\ latest_backup_num = <<2>>

\* C11: when remote/config does not exist or is not a directory, the process
\* ends with exit status 1, no directory is scanned and delete_snapshot is
\* never called.
C11_MissingRootIsFatal ==
    root_kind \in {"missing", "file"}
        => /\ pc = "exited"
           /\ exit_status = <<1>>
           /\ ~scanned
           /\ snapshots = <<>>
           /\ calls = <<>>

C11_Witness ==
    /\ pc = "exited"
    /\ located
    /\ root_kind = "file"
    /\ exit_status = <<1>>

\* C12: within one run the snapshots passed to delete_snapshot come in
\* non-decreasing order of number, whatever order the scan yielded them in.
C12_OldestFirst ==
    \A j, k \in CallIdx : j < k => SnapNum(calls[j].snap) <= SnapNum(calls[k].snap)

C12_Witness ==
    /\ pc = "done"
    /\ Len(calls) >= 3
    /\ SnapNum(calls[1].snap) < SnapNum(calls[Len(calls)].snap)

\* C13 as stated: the loop stops as soon as (snapshots not yet visited -
\* delete_attempts) <= max_keep.
C13_StopsOnRemainingCount ==
    [][(pc = "loop" /\ idx <= Len(snapshots)
          /\ (Len(snapshots) - (idx - 1)) - delete_attempts <= max_keep)
       => pc' = "summary"]_vars

\* C13, amended: the loop stops at a snapshot exactly when (number of
\* snapshots discovered - delete_attempts) <= max_keep, the count being the
\* whole list and not the part still to visit; once it has stopped no further
\* snapshot is passed to delete_snapshot.
C13_StopsOnTotalCount ==
    [][/\ (pc = "loop" /\ idx <= Len(snapshots))
            => ((Len(snapshots) - delete_attempts <= max_keep) <=> pc' = "summary")
       /\ pc \in {"summary", "done"} => calls' = calls]_vars

C13_Witness ==
    /\ pc = "summary"
    /\ idx <= Len(snapshots)
    /\ Len(snapshots) - delete_attempts <= max_keep
    /\ calls = <<>>

\* C14: a failure of either stage of a call (volume removal exits non-zero,
\* rmtree raises) makes delete_snapshot return False, and the run goes on to
\* the next snapshot and to the summary instead of being aborted.
C14_FailureIsRecoveredLocally ==
    \A k \in CallIdx :
        (calls[k].a = "fail" \/ calls[k].b = "raise")
            => /\ calls[k].ret = "false"
               /\ pc # "crashed"

\* C15: a call returns True exactly when the volume removal exited zero and
\* rmtree then completed; delete_count counts the calls that returned True.
C15_SuccessMeansBothStages ==
    /\ \A k \in CallIdx :
          calls[k].ret = "true" <=> (calls[k].a = "ok" /\ calls[k].b = "ok")
    /\ delete_count = Cardinality({k \in CallIdx : calls[k].ret = "true"})

C15_Witness ==
    /\ pc = "done"
    /\ \E k \in CallIdx : calls[k].ret = "true"
    /\ \E k \in CallIdx : calls[k].a = "ok" /\ calls[k].b = "raise" /\ calls[k].ret = "false"

\* C16: once a call of delete_snapshot has returned, whatever its outcome,
\* delete_attempts is at least 1.
C16_AttemptIsRecorded ==
    (calls # <<>> /\ calls[Len(calls)].ret \in {"true", "false"})
        => delete_attempts >= 1

\* C17 as stated: every snapshot of the list has a non-negative number.
C17_NumbersNonNegative == \A i \in SnapIdx : SnapNum(i) >= 0

\* C17, amended: the list holds exactly the children for which is_dir() holds
\* (directories and links to directories) and whose name int() accepts, each
\* with the number int() gives; a negative number is accepted, so a directory
\* named "-3" is listed with number -3 and is a deletion candidate.
C17_ListIsParsableDirectories ==
    scanned
        => /\ \A i \in SnapIdx :
                /\ SnapName(i) \in DOMAIN children
                /\ children[SnapName(i)] \in {"dir", "rootlink"}
                /\ PyInt(SnapName(i)) = <<SnapNum(i)>>
           /\ \A n \in DOMAIN children :
                (children[n] \in {"dir", "rootlink"} /\ PyInt(n) # <<>>)
                    => \E i \in SnapIdx : SnapName(i) = n

C17_Witness ==
    /\ pc = "done"
    /\ \E i \in Invoked : SnapNum(i) = 0 - 3
    /\ \E n \in DOMAIN children : children[n] = "file" /\ PyInt(n) # <<>>
    /\ \E n \in DOMAIN children : children[n] = "dir" /\ PyInt(n) = <<>>

\* C18: when the number of snapshots discovered is at most max_keep,
\* delete_snapshot is never called; otherwise it is called on every snapshot
\* that is not skipped as the latest backup or as the root, whatever the
\* outcomes of the earlier calls.
C18_AllOrNothing ==
    (scanned /\ exit_status # <<>>)
        => IF Len(snapshots) <= max_keep
           THEN calls = <<>>
           ELSE Invoked = NonExcluded

\* C19: delete_snapshot is called at most once per snapshot of the list.
C19_AtMostOneCallPerSnapshot ==
    \A j, k \in CallIdx :
        j # k => /\ calls[j].snap # calls[k].snap
                 /\ SnapName(calls[j].snap) # SnapName(calls[k].snap)

C19_Witness ==
    /\ pc = "done"
    /\ Len(calls) >= 2
    /\ calls[1].ret = "false"
    /\ calls[1].snap \in Remaining

====
